---- MODULE Spec2Model ----
(***************************************************************************)
(* Model of omni.dynamic_texture_example (extension.py): the two free      *)
(* functions create_textured_plane_prim and create_dynamic_texture, and    *)
(* the lifecycle object DynamicTextureProviderExample with its click       *)
(* handler on_click_create.                                                *)
(*                                                                         *)
(* The host (USD stage, omni.ui, the dynamic texture registry, PIL and the *)
(* file cat.jpg) is the environment.  Where the host decides an outcome    *)
(* the model takes every outcome the code provides for: RemovePrim of an   *)
(* absent prim either returns False or raises (the handler has a bare      *)
(* except around it), opening or decoding the image may raise, and the     *)
(* upload may raise.                                                       *)
(***************************************************************************)
EXTENDS Integers, Sequences, FiniteSets, TLC

VARIABLES
    ext,            \* "Inactive" | "Active": the host's view of the extension
    window,         \* self._window: the windows the instance holds (0 or 1)
    texture,        \* self._texture: None or the handle of a provider
    stage,          \* the host's USD stage: prim path -> prim
    hostTextures,   \* the host's dynamic textures: live providers and names
    image,          \* the file cat.jpg beside the extension
    held,           \* handles a direct caller of create_dynamic_texture holds
    latest,         \* per name, the most recent upload whose handle is alive
    last            \* the operation that ran last and how it went (history)

vars == <<ext, window, texture, stage, hostTextures, image, held, latest, last>>

(***************************************************************************)
(* Bounds of the model.                                                    *)
(***************************************************************************)
MaxDim == 2
MaxHandles == 2

\* Python's None where a handle is expected
None == 0
NoException == "none"

(***************************************************************************)
(* Strings.  Python's f-strings over str values are concatenations.       *)
(***************************************************************************)
StartsWith(s, prefix) ==
    /\ Len(s) >= Len(prefix)
    /\ SubSeq(s, 1, Len(prefix)) = prefix

\* p is path `root` or a descendant of it (an SdfPath prefix)
HasPrefix(p, root) ==
    /\ StartsWith(p, root)
    /\ \/ Len(p) = Len(root)
       \/ SubSeq(p, Len(root) + 1, Len(root) + 1) = "/"

\* the proper ancestors of a prim path, the pseudo-root excluded
AncestorPaths(p) ==
    { SubSeq(p, 1, i - 1) : i \in { j \in 2..Len(p) : SubSeq(p, j, j) = "/" } }

(***************************************************************************)
(* The USD stage: a function from the paths of the prims that exist to     *)
(* their type and attributes.                                              *)
(***************************************************************************)
EmptyStage == [p \in {} |-> [type |-> ""]]

\* <Schema>.Define(stage, path): the prim at path gets the type; ancestors
\* that do not exist are defined without a type; an existing prim keeps its
\* attributes and its children.
Define(stg, path, type) ==
    LET missing == AncestorPaths(path) \ DOMAIN stg
        withAncestors == [p \in missing |-> [type |-> ""]] @@ stg
    IN  IF path \in DOMAIN stg
        THEN [withAncestors EXCEPT ![path] = [type |-> type] @@ @]
        ELSE (path :> [type |-> type]) @@ withAncestors

\* Create...Attr / Set / Bind on an existing prim: the named attributes are
\* authored, the others are kept.
SetAttrs(stg, path, attrs) == [stg EXCEPT ![path] = attrs @@ @]

\* stage.RemovePrim(path) on a prim that exists: the prim and its subtree go.
RemoveSubtree(stg, path) ==
    [p \in { q \in DOMAIN stg : ~HasPrefix(q, path) } |-> stg[p]]

\* What stage.RemovePrim(path) can do.  "removed": the prim existed and is
\* gone.  For a prim that does not exist the host reports the failure either
\* as the result False or as an exception.
RemoveOutcomes(stg, path) ==
    IF path \in DOMAIN stg THEN {"removed"} ELSE {"false", "raised"}

(***************************************************************************)
(* create_textured_plane_prim(stage, prim_path, texture_name)              *)
(***************************************************************************)
QuadPoints == << <<-430, -145, 0>>, <<430, -145, 0>>, <<430, 145, 0>>, <<-430, 145, 0>> >>
QuadExtent == << <<-430, -145, 0>>, <<430, 145, 0>> >>
QuadST == << <<0, 0>>, <<1, 0>>, <<1, 1>>, <<0, 1>> >>

\* f"dynamic://{texture_name}"
TextureUri_NoScheme(texture_name) == "dynamic:/" \o texture_name

TextureUri(texture_name) == "dynamic://" \o texture_name

create_textured_plane_prim(stg, prim_path, texture_name) ==
    LET mesh_path == prim_path \o "/Mesh"
        s1 == Define(stg, mesh_path, "Mesh")
        s2 == SetAttrs(s1, mesh_path,
                  [points |-> QuadPoints,
                   faceVertexCounts |-> <<4>>,
                   faceVertexIndices |-> <<0, 1, 2, 3>>,
                   extent |-> QuadExtent,
                   st |-> [type |-> "TexCoord2fArray",
                           interpolation |-> "varying",
                           value |-> QuadST]])
        material_path == prim_path \o "/Material"
        s3 == Define(s2, material_path, "Material")
        shader_path == material_path \o "/Shader"
        s4 == Define(s3, shader_path, "Shader")
        s5 == SetAttrs(s4, shader_path,
                  [sourceAsset |-> "OmniPBR.mdl",
                   subIdentifier |-> "OmniPBR",
                   id |-> "OmniPBR",
                   diffuse_texture |-> TextureUri(texture_name)])
        s6 == SetAttrs(s5, material_path, [surface |-> shader_path])
        s7 == SetAttrs(s6, mesh_path,
                  [apiSchemas |-> {"MaterialBindingAPI"},
                   binding |-> material_path])
    IN  s7

(***************************************************************************)
(* The host's dynamic textures.  providers: handle -> the live provider    *)
(* with the name it was constructed under and the data set on it;          *)
(* registry: name -> the handle whose data dynamic://<name> resolves to.   *)
(***************************************************************************)
Handles == 1..MaxHandles

NoTextures == [providers |-> [h \in {} |-> 0], registry |-> [n \in {} |-> 0]]

FreeHandles(ht) == Handles \ DOMAIN ht.providers

FreshHandle(ht) ==
    CHOOSE h \in FreeHandles(ht) : \A k \in FreeHandles(ht) : h <= k

\* ui.DynamicTextureProvider(name): a provider whose registration creates or
\* replaces the one under name
NewProvider(ht, h, name) ==
    [providers |-> (h :> [name |-> name, bytes |-> <<>>,
                          resolution |-> <<>>, format |-> "unset"])
                   @@ ht.providers,
     registry |-> (name :> h) @@ ht.registry]

\* dtp.set_bytes_data(bytes, resolution, format)
SetBytesData(ht, h, bytes, resolution, format) ==
    [ht EXCEPT !.providers[h] =
        [@ EXCEPT !.bytes = bytes, !.resolution = resolution, !.format = format]]

\* The last reference to provider h goes away: the provider is destroyed and
\* the registration it still owns is released.
DestroyProvider(ht, h) ==
    LET name == ht.providers[h].name
        keep == { n \in DOMAIN ht.registry : ~(n = name /\ ht.registry[n] = h) }
    IN  [providers |-> [k \in DOMAIN ht.providers \ {h} |-> ht.providers[k]],
         registry |-> [n \in keep |-> ht.registry[n]]]

\* A reference that held `ref` is rebound or cleared
DropReference(ht, ref) ==
    IF ref = None THEN ht ELSE DestroyProvider(ht, ref)

\* What a shader input dynamic://<name> resolves to: << >> when nothing is
\* registered under the name, else the one-element sequence of the data
Lookup(ht, name) ==
    IF name \in DOMAIN ht.registry
    THEN LET p == ht.providers[ht.registry[name]]
         IN  << [bytes |-> p.bytes, resolution |-> p.resolution, format |-> p.format] >>
    ELSE << >>

(***************************************************************************)
(* create_dynamic_texture(texture_name, bytes, resolution, format)         *)
(***************************************************************************)
\* list(x): a new list of the elements of x, in order
list(x) == [i \in 1..Len(x) |-> x[i]]

\* mutant: the resolution reaches the host as (height, width)
create_dynamic_texture_SwapsResolution(ht, h, texture_name, bytes, resolution, format) ==
    SetBytesData(NewProvider(ht, h, texture_name), h, list(bytes),
                 << resolution[2], resolution[1] >>, format)

\* h is the handle of the provider the call constructs
create_dynamic_texture(ht, h, texture_name, bytes, resolution, format) ==
    LET bytes_list == list(bytes)
        constructed == NewProvider(ht, h, texture_name)
    IN  SetBytesData(constructed, h, bytes_list, list(resolution), format)

\* The call when set_bytes_data raises: the provider was constructed, and
\* the local dtp, its only reference, is dropped as the exception unwinds.
create_dynamic_texture_raising(ht, h, texture_name) ==
    DestroyProvider(NewProvider(ht, h, texture_name), h)

(***************************************************************************)
(* PIL and the image file.                                                 *)
(***************************************************************************)
Modes == {"L", "RGB", "RGBA"}

Bands(mode) ==
    CASE mode = "L" -> 1
      [] mode = "RGB" -> 3
      [] mode = "RGBA" -> 4

Tones == {250}

\* the k-th pixel of a test image: one value in 0..255 per band
SourcePixel(mode, tone, k) ==
    [b \in 1..Bands(mode) |-> (tone + 4 * k + b) % 256]

ImageFile(w, h, mode, tone) ==
    [kind |-> "image", width |-> w, height |-> h, mode |-> mode,
     pixels |-> [k \in 1..(w * h) |-> SourcePixel(mode, tone, k)]]

NoImageFile(kind) ==
    [kind |-> kind, width |-> 0, height |-> 0, mode |-> "", pixels |-> << >>]

GoodFiles ==
    { ImageFile(w, h, mode, tone) :
        w \in 1..MaxDim, h \in 1..MaxDim, mode \in Modes, tone \in Tones }

\* cat.jpg may be absent, not an image, or an image whose data is cut short
Files == GoodFiles \cup { NoImageFile(k) : k \in {"missing", "unidentified", "truncated"} }

\* Image.open(path, mode='r'): reads the header only
OpenRaises(file) ==
    CASE file.kind = "missing" -> "FileNotFoundError"
      [] file.kind = "unidentified" -> "UnidentifiedImageError"
      [] OTHER -> NoException

\* image.convert('RGBA') loads the pixel data
ConvertRaises(file) ==
    IF file.kind = "truncated" THEN "OSError" ELSE NoException

PixelToRGBA(mode, px) ==
    CASE mode = "L" -> << px[1], px[1], px[1], 255 >>
      [] mode = "RGB" -> << px[1], px[2], px[3], 255 >>
      [] mode = "RGBA" -> << px[1], px[2], px[3], px[4] >>

convert_RGBA(img) ==
    [img EXCEPT !.mode = "RGBA",
                !.pixels = [k \in 1..Len(img.pixels) |-> PixelToRGBA(img.mode, img.pixels[k])]]

\* image.tobytes(): the bands of the pixels, row by row
tobytes(img) ==
    LET b == Bands(img.mode)
    IN  [i \in 1..(Len(img.pixels) * b) |->
            img.pixels[((i - 1) \div b) + 1][((i - 1) % b) + 1]]

(***************************************************************************)
(* History: the most recent upload under each name, kept while its handle  *)
(* is alive and no later provider took the name.                           *)
(***************************************************************************)
NoUploads == [n \in {} |-> 0]

Forget(lt, h) == [n \in { m \in DOMAIN lt : lt[m].handle # h } |-> lt[n]]

ForgetReference(lt, ref) == IF ref = None THEN lt ELSE Forget(lt, ref)

ForgetName(lt, name) == [n \in DOMAIN lt \ {name} |-> lt[n]]

Remember(lt, name, h, bytes, resolution, format) ==
    (name :> [handle |-> h, bytes |-> bytes, resolution |-> resolution,
              format |-> format]) @@ lt

\* what `last` records about an operation; the fields an operation does not
\* use keep these values
NoLast ==
    [op |-> "none", raised |-> NoException, removal |-> "none",
     textureBefore |-> None, buildCalled |-> FALSE, textureAtBuild |-> None,
     upload |-> << >>, file |-> NoImageFile("missing"), path |-> "", name |-> ""]

(***************************************************************************)
(* DynamicTextureProviderExample.on_startup                                *)
(***************************************************************************)
\* The statements of on_startup that touch its local name on_click_create,
\* in source order: the Button call reads it, the def binds it.
on_startup_body ==
    << [op |-> "store", name |-> "self._texture"],
       [op |-> "store", name |-> "self._window"],
       [op |-> "load", name |-> "on_click_create"],
       [op |-> "bind", name |-> "on_click_create"] >>

\* A name a function binds anywhere in its body is local to it; reading it
\* before the binding statement has run raises UnboundLocalError.
BoundBefore(body, i, name) ==
    \E j \in 1..(i - 1) : body[j].op = "bind" /\ body[j].name = name

LoadsUnbound(body) ==
    \E i \in 1..Len(body) :
        body[i].op = "load" /\ ~BoundBefore(body, i, body[i].name)

CreateButton == [label |-> "Create", clicked_fn |-> "on_click_create"]

NewWindow(buttons) ==
    [title |-> "Create Dynamic Texture Provider Example",
     width |-> 300, height |-> 300, buttons |-> buttons]

on_startup ==
    /\ ext = "Inactive"
    /\ ext' = "Active"
    /\ texture' = None
    /\ hostTextures' = DropReference(hostTextures, texture)
    /\ latest' = ForgetReference(latest, texture)
    /\ IF LoadsUnbound(on_startup_body)
       THEN /\ window' = << NewWindow(<< >>) >>
            /\ last' = [NoLast EXCEPT !.op = "on_startup",
                                      !.raised = "UnboundLocalError",
                                      !.textureBefore = texture]
       ELSE /\ window' = << NewWindow(<< CreateButton >>) >>
            /\ last' = [NoLast EXCEPT !.op = "on_startup",
                                      !.textureBefore = texture]
    /\ UNCHANGED <<stage, image, held>>

(***************************************************************************)
(* DynamicTextureProviderExample.on_shutdown                               *)
(***************************************************************************)
\* mutant: the handle is not cleared
on_shutdown_KeepsTexture ==
    /\ ext = "Active"
    /\ ext' = "Inactive"
    /\ last' = [NoLast EXCEPT !.op = "on_shutdown", !.textureBefore = texture]
    /\ UNCHANGED <<window, texture, stage, hostTextures, image, held, latest>>

on_shutdown ==
    /\ ext = "Active"
    /\ ext' = "Inactive"
    /\ texture' = None
    /\ hostTextures' = DropReference(hostTextures, texture)
    /\ latest' = ForgetReference(latest, texture)
    /\ last' = [NoLast EXCEPT !.op = "on_shutdown", !.textureBefore = texture]
    /\ UNCHANGED <<window, stage, image, held>>

(***************************************************************************)
(* on_click_create, the button's clicked_fn                                *)
(***************************************************************************)
\* try: stage.RemovePrim(prim_path); self._texture = None / except: pass
\* mutant: the existing prim is not removed
RemovalStep_KeepsPrim(stg, tex, ht, lt, prim_path, outcome) ==
    IF outcome = "raised"
    THEN [stage |-> stg, texture |-> tex, host |-> ht, latest |-> lt,
          raised |-> NoException]
    ELSE [stage |-> stg,
          texture |-> None,
          host |-> DropReference(ht, tex),
          latest |-> ForgetReference(lt, tex),
          raised |-> NoException]

\* mutant: no try/except around the removal
RemovalStep_NoExcept(stg, tex, ht, lt, prim_path, outcome) ==
    IF outcome = "raised"
    THEN [stage |-> stg, texture |-> tex, host |-> ht, latest |-> lt,
          raised |-> "RemovePrimError"]
    ELSE [stage |-> IF outcome = "removed" THEN RemoveSubtree(stg, prim_path) ELSE stg,
          texture |-> None,
          host |-> DropReference(ht, tex),
          latest |-> ForgetReference(lt, tex),
          raised |-> NoException]

\* `raised` is the exception that leaves the try statement: none, the bare
\* except catches whatever RemovePrim raises.
RemovalStep(stg, tex, ht, lt, prim_path, outcome) ==
    IF outcome = "raised"
    THEN [stage |-> stg, texture |-> tex, host |-> ht, latest |-> lt,
          raised |-> NoException]
    ELSE [stage |-> IF outcome = "removed" THEN RemoveSubtree(stg, prim_path) ELSE stg,
          texture |-> None,
          host |-> DropReference(ht, tex),
          latest |-> ForgetReference(lt, tex),
          raised |-> NoException]

\* mutant: the builder is handed the prim path where the image name belongs
BuildStep_PassesPath(stg, prim_path, image_name) ==
    create_textured_plane_prim(
        SetAttrs(Define(stg, prim_path, "Xform"), prim_path, [kind |-> "component"]),
        prim_path, prim_path)

\* model_root = UsdGeom.Xform.Define(stage, prim_path); SetKind(component);
\* create_textured_plane_prim(stage, prim_path, image_name)
BuildStep(stg, prim_path, image_name) ==
    LET s1 == Define(stg, prim_path, "Xform")
        s2 == SetAttrs(s1, prim_path, [kind |-> "component"])
    IN  create_textured_plane_prim(s2, prim_path, image_name)

\* mutant: the image is not converted to RGBA before tobytes
LoadImage_NoConvert(file) ==
    IF OpenRaises(file) # NoException
    THEN [raised |-> OpenRaises(file), bytes |-> << >>, resolution |-> << >>,
          format |-> "unset"]
    ELSE IF ConvertRaises(file) # NoException
    THEN [raised |-> ConvertRaises(file), bytes |-> << >>, resolution |-> << >>,
          format |-> "unset"]
    ELSE [raised |-> NoException,
          bytes |-> tobytes(file),
          resolution |-> << file.width, file.height >>,
          format |-> "RGBA8_UNORM"]

\* Image.open, convert('RGBA'), tobytes, resolution and format
LoadImage(file) ==
    IF OpenRaises(file) # NoException
    THEN [raised |-> OpenRaises(file), bytes |-> << >>, resolution |-> << >>,
          format |-> "unset"]
    ELSE IF ConvertRaises(file) # NoException
    THEN [raised |-> ConvertRaises(file), bytes |-> << >>, resolution |-> << >>,
          format |-> "unset"]
    ELSE LET rgba == convert_RGBA(file)
         IN  [raised |-> NoException,
              bytes |-> tobytes(rgba),
              resolution |-> << rgba.width, rgba.height >>,
              format |-> "RGBA8_UNORM"]

ButtonWired ==
    /\ window # << >>
    /\ \E i \in 1..Len(window[1].buttons) :
          window[1].buttons[i].clicked_fn = "on_click_create"

on_click_create(outcome, uploadRaises) ==
    LET name == "Thing"
        image_name == name
        prim_path == "/World/" \o name
        r == RemovalStep(stage, texture, hostTextures, latest, prim_path, outcome)
        built == BuildStep(r.stage, prim_path, image_name)
        loaded == LoadImage(image)
        h == FreshHandle(r.host)
        entered == [NoLast EXCEPT !.op = "on_click_create",
                                  !.removal = outcome,
                                  !.textureBefore = texture,
                                  !.file = image]
        atBuild == [entered EXCEPT !.buildCalled = TRUE,
                                  !.textureAtBuild = r.texture]
        call == [name |-> image_name, bytes |-> loaded.bytes,
                 resolution |-> loaded.resolution, format |-> loaded.format]
    IN  /\ ext = "Active"
        /\ ButtonWired
        /\ outcome \in RemoveOutcomes(stage, prim_path)
        /\ FreeHandles(r.host) # {}
        /\ IF r.raised # NoException
           THEN /\ stage' = r.stage
                /\ texture' = r.texture
                /\ hostTextures' = r.host
                /\ latest' = r.latest
                /\ last' = [entered EXCEPT !.raised = r.raised]
           ELSE IF loaded.raised # NoException
           THEN /\ stage' = built
                /\ texture' = r.texture
                /\ hostTextures' = r.host
                /\ latest' = r.latest
                /\ last' = [atBuild EXCEPT !.raised = loaded.raised]
           ELSE IF uploadRaises
           THEN /\ stage' = built
                /\ texture' = r.texture
                /\ hostTextures' = create_dynamic_texture_raising(r.host, h, image_name)
                /\ latest' = ForgetName(r.latest, image_name)
                /\ last' = [atBuild EXCEPT !.raised = "UploadError",
                                           !.upload = << call >>]
           ELSE /\ stage' = built
                /\ texture' = h
                /\ hostTextures' =
                      DropReference(
                          create_dynamic_texture(r.host, h, image_name, loaded.bytes,
                                                 loaded.resolution, loaded.format),
                          r.texture)
                /\ latest' =
                      ForgetReference(
                          Remember(r.latest, image_name, h, loaded.bytes,
                                   loaded.resolution, loaded.format),
                          r.texture)
                /\ last' = [atBuild EXCEPT !.upload = << call >>]
        /\ UNCHANGED <<ext, window, image, held>>

(***************************************************************************)
(* The environment: the user edits the stage, the file changes.            *)
(***************************************************************************)
\* The user authors or deletes a prim at the path the handler builds at, or
\* a child of it that no build creates.
UserPaths == {"/World/Thing", "/World/Thing/Old"}

UserType(p) == IF p = "/World/Thing" THEN "Xform" ELSE "Mesh"

HostDefinePrim(p) ==
    /\ stage' = Define(stage, p, UserType(p))
    /\ stage' # stage
    /\ last' = [NoLast EXCEPT !.op = "host"]
    /\ UNCHANGED <<ext, window, texture, hostTextures, image, held, latest>>

HostRemovePrim(p) ==
    /\ p \in DOMAIN stage
    /\ stage' = RemoveSubtree(stage, p)
    /\ last' = [NoLast EXCEPT !.op = "host"]
    /\ UNCHANGED <<ext, window, texture, hostTextures, image, held, latest>>

ImageFileChanged(file) ==
    /\ file # image
    /\ image' = file
    /\ last' = [NoLast EXCEPT !.op = "host"]
    /\ UNCHANGED <<ext, window, texture, stage, hostTextures, held, latest>>

Environment ==
    \/ \E p \in UserPaths : HostDefinePrim(p)
    \/ \E p \in UserPaths : HostRemovePrim(p)
    \/ \E file \in Files : ImageFileChanged(file)

(***************************************************************************)
(* The extension as shipped: constructed, then started and stopped by the  *)
(* host.                                                                   *)
(***************************************************************************)
InitStartup ==
    /\ ext = "Inactive"
    /\ window = << >>
    /\ texture = None
    /\ stage = EmptyStage
    /\ hostTextures = NoTextures
    /\ image \in Files
    /\ held = {}
    /\ latest = NoUploads
    /\ last = NoLast

NextStartup ==
    \/ on_startup
    \/ on_shutdown
    \/ Environment

SpecStartup == InitStartup /\ [][NextStartup]_vars

(***************************************************************************)
(* The Active extension with its button wired to on_click_create: the      *)
(* state the click handler runs from, as the statements of on_startup      *)
(* describe it.  on_startup as written raises before the Button is         *)
(* constructed (SpecStartup), so a restart under this specification leaves *)
(* a window without a button and no further click.                         *)
(***************************************************************************)
Init ==
    /\ ext = "Active"
    /\ window = << NewWindow(<< CreateButton >>) >>
    /\ texture = None
    /\ stage = EmptyStage
    /\ hostTextures = NoTextures
    /\ image \in Files
    /\ held = {}
    /\ latest = NoUploads
    /\ last = NoLast

Next ==
    \/ \E outcome \in {"removed", "false", "raised"}, uploadRaises \in BOOLEAN :
          on_click_create(outcome, uploadRaises)
    \/ on_shutdown
    \/ on_startup
    \/ Environment

Spec == Init /\ [][Next]_vars

(***************************************************************************)
(* The two free functions called directly by an importer of the module.   *)
(***************************************************************************)
BuildPaths == {"/World/Thing", "/World/Other"}
TextureNames == {"Thing", "cat 1"}

\* (bytes, resolution, format) as a caller may pass them; the last one has a
\* length that does not match its resolution, which the function does not
\* check
ApiPayloads ==
    { [bytes |-> << 1, 2, 3, 4 >>, resolution |-> << 1, 1 >>, format |-> "RGBA8_UNORM"],
      [bytes |-> << 9, 8, 7, 6, 5, 4, 3, 2 >>, resolution |-> << 2, 1 >>,
       format |-> "RGBA8_UNORM"],
      [bytes |-> << 7 >>, resolution |-> << 1, 2 >>, format |-> "R8_UNORM"] }

ApiBuild(path, name) ==
    /\ stage' = create_textured_plane_prim(stage, path, name)
    /\ last' = [NoLast EXCEPT !.op = "build", !.path = path, !.name = name]
    /\ UNCHANGED <<ext, window, texture, hostTextures, image, held, latest>>

ApiRemovePrim(path) ==
    /\ path \in DOMAIN stage
    /\ stage' = RemoveSubtree(stage, path)
    /\ last' = [NoLast EXCEPT !.op = "remove", !.path = path]
    /\ UNCHANGED <<ext, window, texture, hostTextures, image, held, latest>>

ApiUpload(name, payload) ==
    /\ FreeHandles(hostTextures) # {}
    /\ LET h == FreshHandle(hostTextures)
       IN  /\ hostTextures' =
                 create_dynamic_texture(hostTextures, h, name, payload.bytes,
                                        payload.resolution, payload.format)
           /\ held' = held \cup {h}
           /\ latest' = Remember(latest, name, h, payload.bytes,
                                 payload.resolution, payload.format)
    /\ last' = [NoLast EXCEPT !.op = "upload", !.name = name, !.upload = << payload >>]
    /\ UNCHANGED <<ext, window, texture, stage, image>>

\* the caller drops the handle create_dynamic_texture returned
ApiRelease(h) ==
    /\ h \in held
    /\ hostTextures' = DestroyProvider(hostTextures, h)
    /\ held' = held \ {h}
    /\ latest' = Forget(latest, h)
    /\ last' = [NoLast EXCEPT !.op = "release", !.name = hostTextures.providers[h].name]
    /\ UNCHANGED <<ext, window, texture, stage, image>>

InitApi ==
    /\ ext = "Inactive"
    /\ window = << >>
    /\ texture = None
    /\ stage = EmptyStage
    /\ hostTextures = NoTextures
    /\ image = NoImageFile("missing")
    /\ held = {}
    /\ latest = NoUploads
    /\ last = NoLast

NextApi ==
    \/ \E path \in BuildPaths, name \in TextureNames : ApiBuild(path, name)
    \/ \E path \in BuildPaths : ApiRemovePrim(path)
    \/ \E name \in TextureNames, payload \in ApiPayloads : ApiUpload(name, payload)
    \/ \E h \in Handles : ApiRelease(h)

SpecApi == InitApi /\ [][NextApi]_vars

(***************************************************************************)
(* Properties.                                                             *)
(***************************************************************************)
TargetPath == "/World/Thing"
TargetShader == "/World/Thing/Material/Shader"

\* the prims strictly beneath the target path
BeneathTarget == { p \in DOMAIN stage : HasPrefix(p, TargetPath) /\ p # TargetPath }

OfType(type) == { p \in BeneathTarget : stage[p].type = type }

ClickDone == last.op = "on_click_create"
ClickSucceeded == ClickDone /\ last.raised = NoException

LoadErrors == {"FileNotFoundError", "UnidentifiedImageError", "OSError"}

\* C1: after on_startup from Inactive the extension is Active with exactly
\* one window holding exactly one button whose click callback is
\* on_click_create, the stored texture handle is None, and on_startup did
\* not raise.
C1_StartupActivates ==
    last.op = "on_startup" =>
        /\ ext = "Active"
        /\ last.raised = NoException
        /\ Len(window) = 1
        /\ Len(window[1].buttons) = 1
        /\ window[1].buttons[1].clicked_fn = "on_click_create"
        /\ texture = None

\* C2: after a click that ran to completion the stage holds the prim at the
\* target path with exactly one Mesh, one Material and one Shader beneath it
\* and nothing else.
C2_OnePrimPerClick ==
    ClickSucceeded =>
        /\ TargetPath \in DOMAIN stage
        /\ Cardinality(OfType("Mesh")) = 1
        /\ Cardinality(OfType("Material")) = 1
        /\ Cardinality(OfType("Shader")) = 1
        /\ Cardinality(BeneathTarget) = 3

\* a completed click that removed an earlier build whose texture was stored
C2_Witness ==
    /\ ClickSucceeded
    /\ last.removal = "removed"
    /\ last.textureBefore # None

\* C3: after a click that completed, the name after "dynamic://" in the
\* shader's texture input is the name the stored provider was registered
\* under.
C3_UriNamesStoredTexture ==
    ClickSucceeded =>
        /\ texture \in DOMAIN hostTextures.providers
        /\ TargetShader \in DOMAIN stage
        /\ LET uri == stage[TargetShader].diffuse_texture
           IN  /\ StartsWith(uri, "dynamic://")
               /\ SubSeq(uri, Len("dynamic://") + 1, Len(uri))
                      = hostTextures.providers[texture].name

C3_Witness ==
    /\ ClickSucceeded
    /\ texture # None
    /\ TargetShader \in DOMAIN stage

\* C4: after build(stage, path, name) the texture input of the shader at
\* path/Material/Shader is "dynamic://" followed by name and nothing else.
C4_UriIsSchemePlusName ==
    last.op = "build" =>
        LET shader == last.path \o "/Material/Shader"
        IN  /\ shader \in DOMAIN stage
            /\ LET uri == stage[shader].diffuse_texture
               IN  /\ Len(uri) = 10 + Len(last.name)
                   /\ SubSeq(uri, 1, 10) = "dynamic://"
                   /\ SubSeq(uri, 11, Len(uri)) = last.name

\* a build at the second path with a name that holds a space, over a shader
\* an earlier build left there
C4_Witness ==
    /\ last.op = "build"
    /\ last.path = "/World/Other"
    /\ last.name = "cat 1"
    /\ "/World/Thing/Material/Shader" \in DOMAIN stage

\* C5: on_shutdown leaves the stored handle None and does not raise, and
\* the provider the handle referred to is gone with its registration.
C5_ShutdownClears ==
    last.op = "on_shutdown" =>
        /\ texture = None
        /\ last.raised = NoException
        /\ last.textureBefore # None =>
              /\ last.textureBefore \notin DOMAIN hostTextures.providers
              /\ \A n \in DOMAIN hostTextures.registry :
                    hostTextures.registry[n] # last.textureBefore

\* a shutdown that found a handle stored
C5_Witness ==
    /\ last.op = "on_shutdown"
    /\ last.textureBefore # None

\* C6: a click whose removal step failed (no prim at the target path) does
\* not let that failure out: the quad is built, the upload is called when
\* the image loads, and the handle is stored when nothing else raised.
C6_RemovalFailureSwallowed ==
    (ClickDone /\ last.removal \in {"false", "raised"}) =>
        /\ last.raised \in {NoException, "UploadError"} \cup LoadErrors
        /\ last.buildCalled
        /\ Cardinality(BeneathTarget) = 3
        /\ last.file.kind = "image" => last.upload # << >>
        /\ last.raised = NoException =>
              /\ texture # None
              /\ Lookup(hostTextures, "Thing") = << [bytes |-> last.upload[1].bytes,
                                                     resolution |-> last.upload[1].resolution,
                                                     format |-> last.upload[1].format] >>

\* a completed click whose removal raised
C6_Witness ==
    /\ ClickSucceeded
    /\ last.removal = "raised"
    /\ texture # None

\* C7: a lookup of dynamic://<name> resolves to the bytes, resolution and
\* format of the most recent upload under name while that upload's handle
\* is neither released nor replaced.
C7_LookupIsLatestUpload ==
    \A n \in DOMAIN latest :
        Lookup(hostTextures, n) = << [bytes |-> latest[n].bytes,
                                      resolution |-> latest[n].resolution,
                                      format |-> latest[n].format] >>

\* two providers alive under one name, the older one released: the name
\* still resolves to the newer upload
C7_Witness ==
    /\ last.op = "release"
    /\ last.name \in DOMAIN latest
    /\ latest[last.name].resolution = << 2, 1 >>

\* C8: on every click the stored handle is None when the builder is called.
C8_ClearedBeforeBuild ==
    (ClickDone /\ last.buildCalled) => last.textureAtBuild = None

\* C9: a click that fails on the image or on the upload leaves the stored
\* handle None.
C9_FailedClickLeavesNone ==
    (ClickDone /\ last.raised \in LoadErrors \cup {"UploadError"}) => texture = None

\* C10: the upload call of a click passes w*h*4 bytes, the resolution
\* (w, h) and the format RGBA8_UNORM, for the image of width w and height h
\* that the click read.
C10_UploadArguments ==
    (ClickDone /\ last.upload # << >>) =>
        LET call == last.upload[1]
            w == last.file.width
            h == last.file.height
        IN  /\ w > 0
            /\ h > 0
            /\ Len(call.bytes) = w * h * 4
            /\ \A i \in 1..Len(call.bytes) : call.bytes[i] \in 0..255
            /\ call.resolution = << w, h >>
            /\ call.format = "RGBA8_UNORM"

\* an upload of a one-band image that is wider than high
C10_Witness ==
    /\ ClickDone
    /\ last.upload # << >>
    /\ last.file.mode = "L"
    /\ last.file.width > last.file.height

====
